---- MODULE Spec2Model ----
(***************************************************************************)
(* The UCI protocol adapter of Weiss (src/uci.c): the command dispatcher,  *)
(* the time-control parser, the search lifecycle (Go / Stop), the option   *)
(* registry (SetOption / Info) and the progress reporter.                  *)
(*                                                                         *)
(* C strings are TLA+ strings; the character at 1-based index i of s is    *)
(* SubSeq(s, i, i), and the empty string past the end is the terminating   *)
(* NUL.  A char* into a buffer is the pair (buffer, 1-based index), and    *)
(* index 0 is the NULL pointer.                                            *)
(***************************************************************************)
EXTENDS Integers, Sequences, FiniteSets, TLC

(***************************************************************************)
(* Bounds of the model.                                                    *)
(***************************************************************************)
\* go lines in the input of one run
MaxGo == 2
\* setoption lines in the input of one run
MaxSetOptions == 1
\* progress reports one search task prints
MaxInfo == 1
\* ticks of the clock behind Now()
MaxNow == 1

(***************************************************************************)
(* libc: characters and strings.                                           *)
(***************************************************************************)
Lower == "abcdefghijklmnopqrstuvwxyz"
Upper == "ABCDEFGHIJKLMNOPQRSTUVWXYZ"
Digits == "0123456789"

\* *(s + i - 1): the character at index i, "" being the terminating NUL
CharAt(s, i) == IF i \in 1..Len(s) THEN SubSeq(s, i, i) ELSE ""

\* the 1-based index of character c in the alphabet abc, 0 when absent
IndexIn(abc, c) ==
    IF \E i \in 1..Len(abc) : CharAt(abc, i) = c
    THEN CHOOSE i \in 1..Len(abc) : CharAt(abc, i) = c
    ELSE 0

\* the character code (ASCII) of a letter or digit, 63 for any other character
CodeOf(c) ==
    IF IndexIn(Lower, c) # 0 THEN 96 + IndexIn(Lower, c)
    ELSE IF IndexIn(Upper, c) # 0 THEN 64 + IndexIn(Upper, c)
    ELSE IF IndexIn(Digits, c) # 0 THEN 47 + IndexIn(Digits, c)
    ELSE 63

\* the letters and digits
Alnum == {CharAt(Lower \o Upper \o Digits, i) : i \in 1..62}

\* the character codes, as a table
Ascii ==
    [c \in Alnum |-> CodeOf(c)]
    @@ ("" :> 0) @@ (" " :> 32) @@ ("-" :> 45) @@ ("+" :> 43) @@ ("/" :> 47)
    @@ ("_" :> 95) @@ ("." :> 46)

\* the character code of a one-character string; NUL is 0
Ord(c) == Ascii[c]

\* the suffix of s from index i on: the C string a pointer s + i - 1 points to
From(s, i) == IF i \in 1..Len(s) THEN SubSeq(s, i, Len(s)) ELSE ""

\* strncmp(s + i - 1, t, strlen(t)) == 0: t is a prefix of the string at index i
StartsWithAt(s, i, t) ==
    \/ t = ""
    \/ /\ i >= 1
       /\ i + Len(t) - 1 <= Len(s)
       /\ SubSeq(s, i, i + Len(t) - 1) = t

\* the scan of strstr from index i on
RECURSIVE StrStrFrom(_, _, _)
StrStrFrom(s, t, i) ==
    IF i + Len(t) - 1 > Len(s) THEN 0
    ELSE IF StartsWithAt(s, i, t) THEN i
    ELSE StrStrFrom(s, t, i + 1)

\* strstr(s, t): the index of the first occurrence of t in s, 0 (NULL) when none
StrStr(s, t) == StrStrFrom(s, t, 1)

IsDigit(c) == Ord(c) \in 48..57

\* the digits of atoi: the value of the run of digits at index i, acc so far
RECURSIVE AtoiDigits(_, _, _)
AtoiDigits(s, i, acc) ==
    IF IsDigit(CharAt(s, i))
    THEN AtoiDigits(s, i + 1, 10 * acc + (Ord(CharAt(s, i)) - 48))
    ELSE acc

\* the index of the first non-blank character at or after index i
RECURSIVE SkipSpaces(_, _)
SkipSpaces(s, i) == IF CharAt(s, i) = " " THEN SkipSpaces(s, i + 1) ELSE i

\* atoi(s + i - 1): blanks, an optional sign, digits; 0 when no digit follows
Atoi(s, i) ==
    LET j == SkipSpaces(s, i)
    IN  IF CharAt(s, j) = "-" THEN 0 - AtoiDigits(s, j + 1, 0)
        ELSE IF CharAt(s, j) = "+" THEN AtoiDigits(s, j + 1, 0)
        ELSE AtoiDigits(s, j, 0)

\* the index just past the token that starts at index i (a blank or the NUL)
RECURSIVE TokenEnd(_, _)
TokenEnd(s, i) ==
    IF CharAt(s, i) = "" \/ CharAt(s, i) = " " THEN i ELSE TokenEnd(s, i + 1)

\* strtok(s + i - 1, " ") and the strtok(NULL, " ") calls after it: the
\* blank-separated tokens of s from index i on, in order
RECURSIVE StrTok(_, _)
StrTok(s, i) ==
    LET j == SkipSpaces(s, i)
    IN  IF CharAt(s, j) = "" THEN << >>
        ELSE << SubSeq(s, j, TokenEnd(s, j) - 1) >> \o StrTok(s, TokenEnd(s, j))

\* printf("%d"): the decimal digits of n
RECURSIVE UDec(_)
UDec(n) == IF n < 10 THEN CharAt(Digits, n + 1)
           ELSE UDec(n \div 10) \o CharAt(Digits, (n % 10) + 1)

Dec(n) == IF n < 0 THEN "-" \o UDec(0 - n) ELSE UDec(n)

\* a ^ b on non-negative ints
RECURSIVE Xor(_, _)
Xor(a, b) ==
    IF a = 0 THEN b
    ELSE IF b = 0 THEN a
    ELSE ((a + b) % 2) + 2 * Xor(a \div 2, b \div 2)

(***************************************************************************)
(* The command hash.                                                       *)
(***************************************************************************)
\* a hash loop that runs to the end of the line instead of the token's
RECURSIVE HashLoopWholeLine(_, _, _, _)
HashLoopWholeLine(str, i, hash, len) ==
    IF CharAt(str, i) # ""
    THEN HashLoopWholeLine(str, i + 1, Xor(hash, Xor(Ord(CharAt(str, i)), len)),
                           len + 1)
    ELSE hash

\* the loop of HashInput: str at index i, hash and len so far
RECURSIVE HashLoop(_, _, _, _)
HashLoop(str, i, hash, len) ==
    IF CharAt(str, i) # "" /\ CharAt(str, i) # " "
    THEN HashLoop(str, i + 1, Xor(hash, Xor(Ord(CharAt(str, i)), len)), len + 1)
    ELSE hash

HashInput(str) == HashLoop(str, 1, 0, 1)

(***************************************************************************)
(* The command constants of the dispatcher's switch (enum InputCommands):  *)
(* the precomputed hashes of the keywords.                                 *)
(***************************************************************************)
GO == 11
UCI == 127
ISREADY == 113
POSITION == 17
SETOPTION == 96
UCINEWGAME == 6
STOP == 28
QUIT == 29

\* the case labels of main's switch (a build without DEV)
Commands == {GO, UCI, ISREADY, POSITION, SETOPTION, UCINEWGAME, STOP, QUIT}

(***************************************************************************)
(* float: a value m * 2^e with a 24-bit significand, m = 0 for zero.       *)
(***************************************************************************)
RECURSIVE Pow2(_)
Pow2(n) == IF n <= 0 THEN 1 ELSE 2 * Pow2(n - 1)

Abs(n) == IF n < 0 THEN 0 - n ELSE n

\* n / d rounded to the nearest integer, ties to even (n >= 0, d > 0)
RoundDiv(n, d) ==
    LET q == n \div d
        r == n % d
    IN  IF 2 * r > d \/ (2 * r = d /\ q % 2 = 1) THEN q + 1 ELSE q

\* the number of binary digits of n > 0
RECURSIVE Bits(_)
Bits(n) == IF n <= 1 THEN 1 ELSE 1 + Bits(n \div 2)

\* (float)(v / 100.0): the float nearest to v / 100, for |v| < 2^24
FloatOfHundredths(v) ==
    IF v = 0 THEN [m |-> 0, e |-> 0]
    ELSE LET a == Abs(v)
             \* the shift k with 2^23 <= a * 2^k / 100 < 2^24
             k == CHOOSE j \in 0..31 :
                      /\ a * Pow2(j) >= 100 * Pow2(23)
                      /\ a * Pow2(j) < 100 * Pow2(24)
             q == RoundDiv(a * Pow2(k), 100)
             m == IF q = Pow2(24) THEN Pow2(23) ELSE q
             e == IF q = Pow2(24) THEN 1 - k ELSE 0 - k
         IN  [m |-> IF v < 0 THEN 0 - m ELSE m, e |-> e]

\* (int)(f * 100): the float product, rounded to float, truncated toward zero
IntOfTimes100(f) ==
    IF f.m = 0 THEN 0
    ELSE LET p  == Abs(f.m) * 100
             s  == Bits(p) - 24
             m2 == RoundDiv(p, Pow2(s))
             e2 == f.e + s
             t  == IF e2 >= 0 THEN m2 * Pow2(e2) ELSE m2 \div Pow2(0 - e2)
         IN  IF f.m < 0 THEN 0 - t ELSE t

(***************************************************************************)
(* The option registry: SetOption's chain of tests, in source order.  Each *)
(* entry is <<name tested by OptionNameIs, storage assigned, kind>>.       *)
(***************************************************************************)
OptionChain == <<
    <<"Hash", "TT.requestedMB", "RequestTTSize">>,
    <<"Threads", "threads.count", "InitThreads">>,
    <<"SyzygyPath", "TB_PATH", "tb_init">>,
    <<"MultiPV", "Limits.multiPV", "MultiPV">>,
    <<"NoobBookLimit", "noobLimit", "Int">>,
    <<"NoobBook", "noobbook", "Bool">>,
    <<"UCI_Chess960", "chess960", "Bool">>,
    <<"OnlineSyzygy", "onlineSyzygy", "Bool">>,
    <<"LMRNoisyBase", "LMRNoisyBase", "Float">>,
    <<"LMRNoisyDiv", "LMRNoisyDiv", "Float">>,
    <<"LMRQuietBase", "LMRQuietBase", "Float">>,
    <<"LMRQuietDiv", "LMRQuietDiv", "Float">>,
    <<"IIRDepth", "IIRDepth", "Int">>,
    <<"IIRCutDepth", "IIRCutDepth", "Int">>,
    <<"RFPDepth", "RFPDepth", "Int">>,
    <<"RFPBase", "RFPBase", "Int">>,
    <<"RFPHistScore", "RFPHistScore", "Int">>,
    <<"RFPHistory", "RFPHistory", "Int">>,
    <<"NMPFlat", "NMPFlat", "Int">>,
    <<"NMPDepth", "NMPDepth", "Int">>,
    <<"NMPHist", "NMPHist", "Int">>,
    <<"NMPRBase", "NMPRBase", "Int">>,
    <<"NMPRDepth", "NMPRDepth", "Int">>,
    <<"NMPREvalDiv", "NMPREvalDiv", "Int">>,
    <<"NMPREvalMin", "NMPREvalMin", "Int">>,
    <<"ProbCut", "ProbCut", "Int">>,
    <<"ProbCutDepth", "ProbCutDepth", "Int">>,
    <<"ProbCutReturn", "ProbCutReturn", "Int">>,
    <<"LMPImp", "LMPImp", "Int">>,
    <<"LMPNonImp", "LMPNonImp", "Int">>,
    <<"HistPruneDepth", "HistPruneDepth", "Int">>,
    <<"HistPrune", "HistPrune", "Int">>,
    <<"SEEPruneDepth", "SEEPruneDepth", "Int">>,
    <<"SEEPruneQ", "SEEPruneQ", "Int">>,
    <<"SEEPruneN", "SEEPruneN", "Int">>,
    <<"SingExtDepth", "SingExtDepth", "Int">>,
    <<"SingExtTTDepth", "SingExtTTDepth", "Int">>,
    <<"SingExtDouble", "SingExtDouble", "Int">>,
    <<"LMRHist", "LMRHist", "Int">>,
    <<"DeeperBase", "DeeperBase", "Int">>,
    <<"DeeperDepth", "DeeperDepth", "Int">>,
    <<"QSFutility", "QSFutility", "Int">>,
    <<"Aspi", "Aspi", "Int">>,
    <<"AspiScoreDiv", "AspiScoreDiv", "Int">>,
    <<"Trend", "Trend", "Int">>,
    <<"TrendDiv", "TrendDiv", "Float">>,
    <<"PruneDiv", "PruneDiv", "Int">>,
    <<"PruneDepthDiv", "PruneDepthDiv", "Int">>,
    <<"HistQDiv", "HistQDiv", "Int">>,
    <<"HistCDiv", "HistCDiv", "Int">>,
    <<"HistNDiv", "HistNDiv", "Int">>,
    <<"HistBonusMax", "HistBonusMax", "Int">>,
    <<"HistBonusBase", "HistBonusBase", "Int">>,
    <<"HistBonusDepth", "HistBonusDepth", "Int">>,
    <<"HistMalusMax", "HistMalusMax", "Int">>,
    <<"HistMalusBase", "HistMalusBase", "Int">>,
    <<"HistMalusDepth", "HistMalusDepth", "Int">>,
    <<"Tempo", "Tempo", "Int">>,
    <<"BasePower", "BasePower", "Int">>,
    <<"NPower", "NPower", "Int">>,
    <<"BPower", "BPower", "Int">>,
    <<"RPower", "RPower", "Int">>,
    <<"QPower", "QPower", "Int">>,
    <<"NCPower", "NCPower", "Int">>,
    <<"BCPower", "BCPower", "Int">>,
    <<"RCPower", "RCPower", "Int">>,
    <<"QCPower", "QCPower", "Int">>,
    <<"Modifier1", "Modifier1", "Int">>,
    <<"Modifier2", "Modifier2", "Int">>,
    <<"Modifier3", "Modifier3", "Int">>,
    <<"Modifier4", "Modifier4", "Int">>,
    <<"Modifier5", "Modifier5", "Int">>,
    <<"Modifier6", "Modifier6", "Int">>,
    <<"Modifier7", "Modifier7", "Int">>,
    <<"Modifier8", "Modifier8", "Int">>,
    <<"PawnScaleBase", "PawnScaleBase", "Int">>,
    <<"PawnScaleX", "PawnScaleX", "Int">>,
    <<"PawnScaleBothSides", "PawnScaleBothSides", "Int">>,
    <<"OCBSolo", "OCBSolo", "Int">>,
    <<"OCBDuo", "OCBDuo", "Int">>,
    <<"ScoreMovesLimit", "ScoreMovesLimit", "Int">>,
    <<"MPGood", "MPGood", "Int">>,
    <<"MPBadDepth", "MPGoodDepth", "Int">>,
    <<"MPBad", "MPBad", "Int">>,
    <<"MPBadDepth", "MPBadDepth", "Int">>
>>

(***************************************************************************)
(* The options Info advertises, in print order: <<name, type, how the      *)
(* default is printed, storage printed>>.                                  *)
(***************************************************************************)
InfoLines == <<
    <<"Hash", "spin", "HashBounds", "">>,
    <<"Threads", "spin", "ThreadBounds", "">>,
    <<"SyzygyPath", "string", "Literal", "<empty>">>,
    <<"MultiPV", "spin", "MultiPVBounds", "">>,
    <<"UCI_Chess960", "check", "Literal", "false">>,
    <<"NoobBook", "check", "Literal", "false">>,
    <<"NoobBookLimit", "spin", "Literal", "0 min 0 max 1000">>,
    <<"OnlineSyzygy", "check", "Literal", "false">>,
    <<"LMRNoisyBase", "spin", "FloatTimes100", "LMRNoisyBase">>,
    <<"LMRNoisyDiv", "spin", "FloatTimes100", "LMRNoisyDiv">>,
    <<"LMRQuietBase", "spin", "FloatTimes100", "LMRQuietBase">>,
    <<"LMRQuietDiv", "spin", "FloatTimes100", "LMRQuietDiv">>,
    <<"IIRDepth", "spin", "Int", "IIRDepth">>,
    <<"IIRCutDepth", "spin", "Int", "IIRCutDepth">>,
    <<"RFPDepth", "spin", "Int", "RFPDepth">>,
    <<"RFPBase", "spin", "Int", "RFPBase">>,
    <<"RFPHistScore", "spin", "Int", "RFPHistScore">>,
    <<"RFPHistory", "spin", "Int", "RFPHistory">>,
    <<"NMPFlat", "spin", "Int", "NMPFlat">>,
    <<"NMPDepth", "spin", "Int", "NMPDepth">>,
    <<"NMPHist", "spin", "Int", "NMPHist">>,
    <<"NMPRBase", "spin", "Int", "NMPRBase">>,
    <<"NMPRDepth", "spin", "Int", "NMPRDepth">>,
    <<"NMPREvalDiv", "spin", "Int", "NMPREvalDiv">>,
    <<"NMPREvalMin", "spin", "Int", "NMPREvalMin">>,
    <<"ProbCut", "spin", "Int", "ProbCut">>,
    <<"ProbCutDepth", "spin", "Int", "ProbCutDepth">>,
    <<"ProbCutReturn", "spin", "Int", "ProbCutReturn">>,
    <<"LMPImp", "spin", "Int", "LMPImp">>,
    <<"LMPNonImp", "spin", "Int", "LMPNonImp">>,
    <<"HistPruneDepth", "spin", "Int", "HistPruneDepth">>,
    <<"HistPrune", "spin", "Int", "HistPrune">>,
    <<"SEEPruneDepth", "spin", "Int", "SEEPruneDepth">>,
    <<"SEEPruneQ", "spin", "Int", "SEEPruneQ">>,
    <<"SEEPruneN", "spin", "Int", "SEEPruneN">>,
    <<"SingExtDepth", "spin", "Int", "SingExtDepth">>,
    <<"SingExtTTDepth", "spin", "Int", "SingExtTTDepth">>,
    <<"SingExtDouble", "spin", "Int", "SingExtDouble">>,
    <<"LMRHist", "spin", "Int", "LMRHist">>,
    <<"DeeperBase", "spin", "Int", "DeeperBase">>,
    <<"DeeperDepth", "spin", "Int", "DeeperDepth">>,
    <<"QSFutility", "spin", "Int", "QSFutility">>,
    <<"Aspi", "spin", "Int", "Aspi">>,
    <<"AspiScoreDiv", "spin", "Int", "AspiScoreDiv">>,
    <<"Trend", "spin", "Int", "Trend">>,
    <<"TrendDiv", "spin", "FloatTimes100", "TrendDiv">>,
    <<"PruneDiv", "spin", "Int", "PruneDiv">>,
    <<"PruneDepthDiv", "spin", "Int", "PruneDepthDiv">>,
    <<"HistQDiv", "spin", "Int", "HistQDiv">>,
    <<"HistCDiv", "spin", "Int", "HistCDiv">>,
    <<"HistNDiv", "spin", "Int", "HistNDiv">>,
    <<"HistBonusMax", "spin", "Int", "HistBonusMax">>,
    <<"HistBonusBase", "spin", "Int", "HistBonusBase">>,
    <<"HistBonusDepth", "spin", "Int", "HistBonusDepth">>,
    <<"HistMalusMax", "spin", "Int", "HistMalusMax">>,
    <<"HistMalusBase", "spin", "Int", "HistMalusBase">>,
    <<"HistMalusDepth", "spin", "Int", "HistMalusDepth">>,
    <<"Tempo", "spin", "Int", "Tempo">>,
    <<"BasePower", "spin", "Int", "BasePower">>,
    <<"NPower", "spin", "Int", "NPower">>,
    <<"BPower", "spin", "Int", "BPower">>,
    <<"RPower", "spin", "Int", "RPower">>,
    <<"QPower", "spin", "Int", "QPower">>,
    <<"NCPower", "spin", "Int", "NCPower">>,
    <<"BCPower", "spin", "Int", "BCPower">>,
    <<"RCPower", "spin", "Int", "RCPower">>,
    <<"QCPower", "spin", "Int", "QCPower">>,
    <<"Modifier1", "spin", "Int", "Modifier1">>,
    <<"Modifier2", "spin", "Int", "Modifier2">>,
    <<"Modifier3", "spin", "Int", "Modifier3">>,
    <<"Modifier4", "spin", "Int", "Modifier4">>,
    <<"Modifier5", "spin", "Int", "Modifier5">>,
    <<"Modifier6", "spin", "Int", "Modifier6">>,
    <<"Modifier7", "spin", "Int", "Modifier7">>,
    <<"Modifier8", "spin", "Int", "Modifier8">>,
    <<"PawnScaleBase", "spin", "Int", "PawnScaleBase">>,
    <<"PawnScaleX", "spin", "Int", "PawnScaleX">>,
    <<"PawnScaleBothSides", "spin", "Int", "PawnScaleBothSides">>,
    <<"OCBSolo", "spin", "Int", "OCBSolo">>,
    <<"OCBDuo", "spin", "Int", "OCBDuo">>,
    <<"ScoreMovesLimit", "spin", "Int", "ScoreMovesLimit">>,
    <<"MPGood", "spin", "Int", "MPGood">>,
    <<"MPGoodDepth", "spin", "Int", "MPGoodDepth">>,
    <<"MPBad", "spin", "Int", "MPBad">>,
    <<"MPBadDepth", "spin", "Int", "MPBadDepth">>
>>

\* the storage locations SetOption assigns that Limits does not hold
Storages == {OptionChain[i][2] : i \in 1..Len(OptionChain)} \ {"Limits.multiPV"}

\* the names Info advertises
Advertised == {InfoLines[i][1] : i \in 1..Len(InfoLines)}

\* the kind of the storage location st
KindOf(st) ==
    LET i == CHOOSE j \in 1..Len(OptionChain) : OptionChain[j][2] = st
    IN  OptionChain[i][3]

(***************************************************************************)
(* Constants of headers the handshake prints.                              *)
(***************************************************************************)
NAME == "Weiss"
HASH_DEFAULT == 32
HASH_MIN == 2
HASH_MAX == 65536
MULTI_PV_MAX == 64
START_FEN == "rnbqkbnr/pppppppp/8/8/8/8/PPPPPPPP/RNBQKBNR w KQkq - 0 1"

(***************************************************************************)
(* The board collaborators, as far as the adapter relies on them.          *)
(***************************************************************************)
WHITE == "WHITE"
BLACK == "BLACK"
NOMOVE == "0000"

\* the moves ParseMove accepts in a position
LegalMoves(p) ==
    IF p.sideToMove = WHITE THEN {"e2e4", "d2d4", "g1f3"}
    ELSE {"e7e5", "d7d5", "g8f6"}

\* ParseMove(tok, pos): the move, or the null move for a token that is none
ParseMove(tok, p) == IF tok \in LegalMoves(p) THEN tok ELSE NOMOVE

\* ParseFen(fen, pos): the side to move is the second field of the FEN
ParseFen(fen) ==
    LET f == StrTok(fen, 1)
    IN  [sideToMove |-> IF Len(f) >= 2 /\ f[2] = "b" THEN BLACK ELSE WHITE,
         gameMoves  |-> 0,
         nodes      |-> 0]

\* MakeMove(pos, move): the other side is to move
MakeMove(p, move) ==
    [p EXCEPT !.sideToMove = IF p.sideToMove = WHITE THEN BLACK ELSE WHITE]

(***************************************************************************)
(* The state of the program.                                               *)
(***************************************************************************)
VARIABLES
    pc,              \* where the control thread is in main
    line,            \* the line GetInput read last from stdin
    str,             \* main's input buffer, as the C string it holds
    nset,            \* the number of setoption lines read so far
    pos,             \* main's Position
    ABORT_SIGNAL,
    SEARCH_STOPPED,
    Limits,          \* the SearchLimits record
    opt,             \* the storage of the options, by C name
    engine,          \* the transposition storage and the other singletons
    tasks,           \* where each search task started so far is, in order
    thread,          \* the main Thread, which every search task works on
    window,          \* <<alpha, beta>> of the search under way
    infos,           \* the progress reports of the search under way
    out,             \* the lines written to stdout since the last read
    now              \* the clock Now() reads

vars == <<pc, line, str, nset, pos, ABORT_SIGNAL, SEARCH_STOPPED, Limits,
          opt, engine, tasks, thread, window, infos, out, now>>

(***************************************************************************)
(* SearchLimits and the time-control parser.                               *)
(***************************************************************************)
\* the length the searchmoves array is modelled at
SearchMovesLen == 3

ZeroMoves == [i \in 1..SearchMovesLen |-> NOMOVE]

\* the fields of SearchLimits declared before multiPV
FieldsBeforeMultiPV ==
    {"start", "time", "inc", "movestogo", "movetime", "depth", "mate",
     "timelimit", "infinite", "searchmoves"}

\* the value of an all-zero field
ZeroOf(f) ==
    IF f \in {"timelimit", "infinite"} THEN FALSE
    ELSE IF f = "searchmoves" THEN ZeroMoves
    ELSE 0

\* a memset that stops short of searchmoves
ClearLimitsKeepMoves(L) ==
    [f \in DOMAIN L |->
        IF f \in FieldsBeforeMultiPV \ {"searchmoves"} THEN ZeroOf(f) ELSE L[f]]

\* memset(&Limits, 0, offsetof(SearchLimits, multiPV))
ClearLimits(L) ==
    [f \in DOMAIN L |-> IF f \in FieldsBeforeMultiPV THEN ZeroOf(f) ELSE L[f]]

\* SetLimit(str, token, &limit): the limit afterwards, old being its value before
SetLimit(s, token, old) ==
    IF StrStr(s, token) # 0 THEN Atoi(s, StrStr(s, token) + Len(token)) ELSE old

\* the loop over strtok(NULL, " "): searchmoves[i] = ParseMove(move, pos),
\* as far as the stores fall inside the array
RECURSIVE StoreMoves(_, _, _, _)
StoreMoves(arr, toks, i, p) ==
    IF i > Len(toks) \/ i \notin DOMAIN arr THEN arr
    ELSE StoreMoves([arr EXCEPT ![i] = ParseMove(toks[i], p)], toks, i + 1, p)

\* the tokens after the searchmoves keyword
SearchMoveTokens(s) ==
    IF StrStr(s, "searchmoves ") = 0 THEN << >>
    ELSE Tail(StrTok(s, StrStr(s, "searchmoves ")))

\* a parser without the default of depth
ParseTimeControlNoDefault(L, s, p, t) ==
    LET L0 == [ClearLimits(L) EXCEPT !.start = t,
                                     !.infinite = (StrStr(s, "infinite") # 0)]
        L1 == [L0 EXCEPT
                 !.time = SetLimit(s, IF p.sideToMove = WHITE THEN "wtime"
                                      ELSE "btime", @),
                 !.inc = SetLimit(s, IF p.sideToMove = WHITE THEN "winc"
                                     ELSE "binc", @),
                 !.movestogo = SetLimit(s, "movestogo", @),
                 !.movetime = SetLimit(s, "movetime", @),
                 !.depth = SetLimit(s, "depth", @),
                 !.mate = SetLimit(s, "mate", @),
                 !.searchmoves = StoreMoves(@, SearchMoveTokens(s), 1, p)]
    IN  [L1 EXCEPT !.timelimit = (L1.time # 0 \/ L1.movetime # 0)]

\* a parser that reads the clock of white whoever is to move
ParseTimeControlWhiteClock(L, s, p, t) ==
    LET L0 == [ClearLimits(L) EXCEPT !.start = t,
                                     !.infinite = (StrStr(s, "infinite") # 0)]
        L1 == [L0 EXCEPT
                 !.time = SetLimit(s, "wtime", @),
                 !.inc = SetLimit(s, "winc", @),
                 !.movestogo = SetLimit(s, "movestogo", @),
                 !.movetime = SetLimit(s, "movetime", @),
                 !.depth = SetLimit(s, "depth", @),
                 !.mate = SetLimit(s, "mate", @),
                 !.searchmoves = StoreMoves(@, SearchMoveTokens(s), 1, p)]
        L2 == [L1 EXCEPT !.timelimit = (L1.time # 0 \/ L1.movetime # 0)]
    IN  [L2 EXCEPT !.depth = IF L2.depth # 0 THEN L2.depth ELSE 100]

\* ParseTimeControl(str, pos): Limits afterwards, at time t
ParseTimeControl(L, s, p, t) ==
    LET L0 == [ClearLimits(L) EXCEPT !.start = t]
        L1 == [L0 EXCEPT !.infinite = (StrStr(s, "infinite") # 0)]
        L2 == [L1 EXCEPT !.time =
                 SetLimit(s, IF p.sideToMove = WHITE THEN "wtime" ELSE "btime", @)]
        L3 == [L2 EXCEPT !.inc =
                 SetLimit(s, IF p.sideToMove = WHITE THEN "winc" ELSE "binc", @)]
        L4 == [L3 EXCEPT !.movestogo = SetLimit(s, "movestogo", @)]
        L5 == [L4 EXCEPT !.movetime = SetLimit(s, "movetime", @)]
        L6 == [L5 EXCEPT !.depth = SetLimit(s, "depth", @)]
        L7 == [L6 EXCEPT !.mate = SetLimit(s, "mate", @)]
        L8 == [L7 EXCEPT !.searchmoves = StoreMoves(@, SearchMoveTokens(s), 1, p)]
        L9 == [L8 EXCEPT !.timelimit = (L8.time # 0 \/ L8.movetime # 0)]
    IN  [L9 EXCEPT !.depth = IF L9.depth # 0 THEN L9.depth ELSE 100]

\* the loop has no test of i against the length of the array: a store
\* beyond its end is undefined behaviour.  L being Limits with the stores
\* inside the array done, the store beyond it is lost, or it lands in the
\* field declared behind the array, multiPV, which then holds the bits of a
\* move (0, the null move, stands for them)
StoredBeyond(L, s) ==
    IF Len(SearchMoveTokens(s)) <= SearchMovesLen THEN {L}
    ELSE {L, [L EXCEPT !.multiPV = 0]}

\* the buffer after strtok has cut it behind the keyword at index i
CutBehind(s, i) == SubSeq(s, 1, TokenEnd(s, i) - 1)

\* str after ParseTimeControl: strtok ends the string behind "searchmoves"
StrAfterParse(s) ==
    IF StrStr(s, "searchmoves ") = 0 THEN s
    ELSE CutBehind(s, StrStr(s, "searchmoves "))

(***************************************************************************)
(* SetOption.                                                              *)
(***************************************************************************)
\* optionName = strstr(str, "name") + 5, as an index into str
OptionNameAt(s) == StrStr(s, "name") + 5

\* optionValue = strstr(str, "value") + 6, as an index into str
OptionValueAt(s) == StrStr(s, "value") + 6

\* OptionNameIs(name), optionName being the index at: !strncmp(optionName, name, strlen(name))
OptionNameIs(s, at, name) == StartsWithAt(s, at, name)

\* BooleanValue: !strncmp(optionValue, "true", 4)
BooleanValue(s) == StartsWithAt(s, OptionValueAt(s), "true")

\* IntValue: atoi(optionValue)
IntValue(s) == Atoi(s, OptionValueAt(s))

\* the if-else chain from entry i on: the first entry whose test succeeds,
\* 0 for the final else
RECURSIVE ChainFrom(_, _, _)
ChainFrom(s, at, i) ==
    IF i > Len(OptionChain) THEN 0
    ELSE IF OptionNameIs(s, at, OptionChain[i][1]) THEN i
    ELSE ChainFrom(s, at, i + 1)

\* the entry of the chain SetOption(s) takes
ChainHit(s) == ChainFrom(s, OptionNameAt(s), 1)

\* the value the entry of the given kind assigns
AssignedValue(s, kind) ==
    IF kind = "Bool" THEN BooleanValue(s)
    ELSE IF kind = "Float" THEN FloatOfHundredths(IntValue(s))
    ELSE IF kind = "tb_init" THEN From(s, OptionValueAt(s))
    ELSE IntValue(s)

\* the option storage after SetOption(s)
OptAfterSetOption(o, s) ==
    LET hit == ChainHit(s)
    IN  IF hit = 0 \/ OptionChain[hit][2] = "Limits.multiPV" THEN o
        ELSE [o EXCEPT ![OptionChain[hit][2]] = AssignedValue(s, OptionChain[hit][3])]

\* Limits after SetOption(s)
LimitsAfterSetOption(L, s) ==
    LET hit == ChainHit(s)
    IN  IF hit # 0 /\ OptionChain[hit][2] = "Limits.multiPV"
        THEN [L EXCEPT !.multiPV = IntValue(s)]
        ELSE L

\* what SetOption(s) prints
SetOptionOutput(s) ==
    IF ChainHit(s) = 0 THEN << "info string No such option." >> ELSE << >>

\* SetOption(str)
SetOption(s) ==
    /\ opt' = OptAfterSetOption(opt, s)
    /\ Limits' = LimitsAfterSetOption(Limits, s)
    /\ out' = SetOptionOutput(s)

(***************************************************************************)
(* Info: the uci handshake.                                                *)
(***************************************************************************)
SpinBounds(d, lo, hi) == Dec(d) \o " min " \o Dec(lo) \o " max " \o Dec(hi)

\* the texts of the arguments that are constants
HashBounds == SpinBounds(HASH_DEFAULT, HASH_MIN, HASH_MAX)
ThreadBounds == SpinBounds(1, 1, 2048)
MultiPVBounds == "1 min 1 max " \o Dec(MULTI_PV_MAX)
TunableRange == " min " \o Dec(-100000) \o " max " \o Dec(100000)

\* the text after "default " of the option line e
InfoDefault(o, e) ==
    IF e[3] = "Literal" THEN e[4]
    ELSE IF e[3] = "HashBounds" THEN HashBounds
    ELSE IF e[3] = "ThreadBounds" THEN ThreadBounds
    ELSE IF e[3] = "MultiPVBounds" THEN MultiPVBounds
    ELSE IF e[3] = "FloatTimes100" THEN Dec(IntOfTimes100(o[e[4]])) \o TunableRange
    ELSE Dec(o[e[4]]) \o TunableRange

\* one printf("option name ...") of Info
InfoLine(o, e) ==
    "option name " \o e[1] \o " type " \o e[2] \o " default " \o InfoDefault(o, e)

\* everything Info prints
InfoOutput(o) ==
    << "id name " \o NAME, "id author Terje Kirstihagen" >>
    \o [i \in 1..Len(InfoLines) |-> InfoLine(o, InfoLines[i])]
    \o << "uciok" >>

\* Info()
Info == out' = InfoOutput(opt)

(***************************************************************************)
(* The progress reporter.  A thread is a record: depth, nodes, tbhits,     *)
(* hashFull, keys (the keys of history(0), history(1), ..., zero beyond    *)
(* its length) and rootMoves (records move, score, pv; empty beyond its    *)
(* length).                                                                *)
(***************************************************************************)
MATE == 31000
MATE_IN_MAX == 30001
\* the ply the seldepth scan starts from
SelDepthStart == 128

\* a mate distance that rounds half moves down
MateScoreFloor(score) ==
    LET d == (MATE - Abs(score)) \div 2
    IN  IF score > 0 THEN d ELSE 0 - d

\* MateScore(score)
MateScore(score) ==
    LET d == (MATE - Abs(score) + 1) \div 2
    IN  IF score > 0 THEN d ELSE 0 - d

\* history(i).key
HistoryKey(th, i) == IF i + 1 \in 1..Len(th.keys) THEN th.keys[i + 1] ELSE 0

\* a scan that ends with the offset of the entry it stops at
RECURSIVE SelDepthLoopOffset(_, _)
SelDepthLoopOffset(th, seldepth) ==
    IF seldepth > 0 /\ HistoryKey(th, seldepth - 1) = 0
    THEN SelDepthLoopOffset(th, seldepth - 1)
    ELSE IF seldepth > 0 THEN seldepth - 1 ELSE 0

\* the loop for (; seldepth > 0; --seldepth) if (history(seldepth-1).key != 0) break
RECURSIVE SelDepthLoop(_, _)
SelDepthLoop(th, seldepth) ==
    IF seldepth > 0 /\ HistoryKey(th, seldepth - 1) = 0
    THEN SelDepthLoop(th, seldepth - 1)
    ELSE seldepth

\* thread->rootMoves[i], i counted from 0
RootMove(th, i) ==
    IF i + 1 \in 1..Len(th.rootMoves) THEN th.rootMoves[i + 1]
    ELSE [move |-> NOMOVE, score |-> 0, pv |-> << >>]

\* the string for type
ScoreType(score) == IF Abs(score) >= MATE_IN_MAX THEN "mate" ELSE "cp"

\* a bound that leaves a score on an edge of the window unmarked
ScoreBoundStrict(score, alpha, beta) ==
    IF score > beta THEN " lowerbound"
    ELSE IF score < alpha THEN " upperbound"
    ELSE ""

\* the string for bound
ScoreBound(score, alpha, beta) ==
    IF score >= beta THEN " lowerbound"
    ELSE IF score <= alpha THEN " upperbound"
    ELSE ""

\* a printed score that is zeroed whatever the length of the pv
PrintedScoreAnyPv(score, pvLength) ==
    IF Abs(score) >= MATE_IN_MAX THEN MateScore(score)
    ELSE IF Abs(score) <= 8 THEN 0
    ELSE score

\* the printed score
PrintedScore(score, pvLength) ==
    IF Abs(score) >= MATE_IN_MAX THEN MateScore(score)
    ELSE IF Abs(score) <= 8 /\ pvLength <= 2 THEN 0
    ELSE score

\* half a 32-bit word
Half == Pow2(16)

\* (int)u of the unsigned value u = hi * Half + lo, which keeps the low 32
\* bits of u and reads them as two's complement
IntOfHalves(hi, lo) ==
    LET h == hi % Half
    IN  IF h >= Half \div 2 THEN (h - Half) * Half + lo ELSE h * Half + lo

\* nps = (int)(1000 * nodes / (elapsed + 1)).  nodes is below 2^31 here, so
\* the unsigned 64-bit product and quotient are exact, and the conversion
\* to int keeps the low 32 bits of the quotient.  With nodes = a * d + b
\* the quotient is 1000 * a + (1000 * b) / d
Nps(nodes, elapsed) ==
    LET d   == elapsed + 1
        a   == nodes \div d
        r   == (1000 * (nodes % d)) \div d
        low == 1000 * (a % Half) + r
    IN  IntOfHalves(1000 * (a \div Half) + low \div Half, low % Half)

\* the moves of a pv, each behind a blank
RECURSIVE PvText(_)
PvText(pv) == IF pv = << >> THEN "" ELSE " " \o Head(pv) \o PvText(Tail(pv))

\* the line printed for slot i
ThinkingLine(th, i, alpha, beta, elapsed) ==
    LET rm == RootMove(th, i)
    IN  "info depth " \o Dec(th.depth)
        \o " seldepth " \o Dec(SelDepthLoop(th, SelDepthStart))
        \o " multipv " \o Dec(i + 1)
        \o " score " \o ScoreType(rm.score)
        \o " " \o Dec(PrintedScore(rm.score, Len(rm.pv)))
        \o ScoreBound(rm.score, alpha, beta)
        \o " time " \o Dec(elapsed)
        \o " nodes " \o Dec(th.nodes)
        \o " nps " \o Dec(Nps(th.nodes, elapsed))
        \o " tbhits " \o Dec(th.tbhits)
        \o " hashfull " \o Dec(th.hashFull)
        \o " pv" \o PvText(rm.pv)

\* the loop for (i = 0; i < Limits.multiPV; ++i), from slot i on
RECURSIVE ThinkingLoop(_, _, _, _, _, _)
ThinkingLoop(th, i, multiPV, alpha, beta, elapsed) ==
    IF i < multiPV /\ Len(RootMove(th, i).pv) # 0
    THEN << ThinkingLine(th, i, alpha, beta, elapsed) >>
         \o ThinkingLoop(th, i + 1, multiPV, alpha, beta, elapsed)
    ELSE << >>

\* PrintThinking(thread, alpha, beta): the lines printed at time t
PrintThinking(th, alpha, beta, L, t) ==
    ThinkingLoop(th, 0, L.multiPV, alpha, beta, t - L.start)

\* PrintConclusion(thread): the line printed
PrintConclusion(th) == "bestmove " \o RootMove(th, 0).move

(***************************************************************************)
(* The initial state: main before its first GetInput.                      *)
(***************************************************************************)
\* the compile-time default of an int tunable
DefaultInt == 10

\* the value the storage st holds at process start
DefaultOf(st) ==
    IF st = "TT.requestedMB" THEN HASH_DEFAULT
    ELSE IF st = "threads.count" THEN 1
    ELSE IF st = "TB_PATH" THEN ""
    ELSE IF st = "noobLimit" THEN 0
    ELSE IF KindOf(st) = "Bool" THEN FALSE
    ELSE IF KindOf(st) = "Float" THEN FloatOfHundredths(100)
    ELSE DefaultInt

\* the main Thread as PrepareSearch leaves it
FreshThread(p) ==
    [depth |-> 0, nodes |-> 0, tbhits |-> 0, hashFull |-> 0, keys |-> << >>,
     rootMoves |-> << [move  |-> CHOOSE m \in LegalMoves(p) : TRUE,
                       score |-> 0,
                       pv    |-> << >>] >>]

\* the window a search starts with
FullWindow == <<0 - MATE, MATE>>

InitLimits ==
    [start |-> 0, time |-> 0, inc |-> 0, movestogo |-> 0, movetime |-> 0,
     depth |-> 0, mate |-> 0, timelimit |-> FALSE, infinite |-> FALSE,
     searchmoves |-> ZeroMoves, multiPV |-> 1]

Init ==
    /\ pc = "read"
    /\ line = ""
    /\ str = ""
    /\ nset = 0
    /\ pos = ParseFen(START_FEN)
    /\ ABORT_SIGNAL = FALSE
    /\ SEARCH_STOPPED = TRUE
    /\ Limits = InitLimits
    /\ opt = [st \in Storages |-> DefaultOf(st)]
    /\ engine = [ttMB |-> 0, ttDirty |-> FALSE, threadsDirty |-> FALSE,
                 failedQueries |-> 0]
    /\ tasks = << >>
    /\ thread = FreshThread(ParseFen(START_FEN))
    /\ window = FullWindow
    /\ infos = 0
    /\ out = << >>
    /\ now = 0

(***************************************************************************)
(* The collaborators of the lifecycle: transposition storage, the          *)
(* condition variable behind Wake and Wait, and the search task.           *)
(***************************************************************************)
\* InitTT(): (re)allocates the storage when the requested size differs
InitTT(en, o) ==
    IF en.ttMB # o["TT.requestedMB"]
    THEN [en EXCEPT !.ttMB = o["TT.requestedMB"], !.ttDirty = FALSE]
    ELSE en

\* ClearTT(); ResetThreads(); failedQueries = 0
ClearedEngine(en) ==
    [en EXCEPT !.ttDirty = FALSE, !.threadsDirty = FALSE, !.failedQueries = 0]

\* whether search task i has not returned yet
Alive(ts, i) == ts[i] # "done"

\* the process runs until main returns or a signal kills it; its threads
\* run no longer than it does
ProcessRuns == pc \notin {"exited", "crashed"}

NoTaskAlive == \A i \in DOMAIN tasks : ~Alive(tasks, i)

\* Wake(): the outcomes of signalling the condition variable, as the set of
\* pairs <<control pc, tasks>>; one parked thread, if any, goes back to
\* testing its condition
Wake(cpc, ts) ==
    LET waiters == (IF cpc = "stop_parked" THEN {0} ELSE {})
                   \cup {i \in DOMAIN ts : ts[i] = "parked"}
    IN  IF waiters = {} THEN {<<cpc, ts>>}
        ELSE {<<IF w = 0 THEN "stop_wait" ELSE cpc,
                IF w = 0 THEN ts ELSE [ts EXCEPT ![w] = "conclusion"]>>
              : w \in waiters}

\* the states of the thread at a progress report, and the window reported
ReportedThreads(p) ==
    {[depth |-> 1, nodes |-> 20, tbhits |-> 0, hashFull |-> 0, keys |-> <<7>>,
      rootMoves |-> << [move |-> m, score |-> 25, pv |-> <<m>>] >>]
     : m \in LegalMoves(p)}

(***************************************************************************)
(* The input lines of the specifications, and the hash main switches on,   *)
(* tabulated for them.                                                     *)
(***************************************************************************)
\* the lifecycle: every command, and two lines that are no command
Lines ==
    {"go infinite", "go depth 1", "stop", "quit", "isready", "uci",
     "ucinewgame", "position startpos moves e2e4",
     "setoption name MultiPV value 2", "og", "help"}

\* the lifecycle of the search
LifeLines == {"go infinite", "go depth 1", "stop", "quit"}

\* the time-control parser: go lines, and what separates two of them
GoLines ==
    {"go", "go infinite", "go depth 10", "go depth 0",
     "go wtime 60000 winc 1000", "go btime 300 binc 20 movestogo 40",
     "go wtime 60000 btime 300 winc 1000 binc 20",
     "go movetime 500 mate 3", "go wtime 0 movetime 0 depth 7",
     "go depth 5 searchmoves e2e4 xyz d2d4", "go infinite searchmoves e7e5",
     "stop", "position startpos moves e2e4",
     "setoption name MultiPV value 3"}

\* go lines with and without searchmoves, one of them with a move more than
\* the array holds, between position lines and stop
MoveLines ==
    {"go", "go depth 5 searchmoves e2e4 xyz d2d4",
     "go infinite searchmoves e7e5", "go searchmoves d2d4 e2e4 g1f3 xyz",
     "position startpos", "position startpos moves e2e4", "stop"}

\* the value texts of the option lines
OptionValues == {"150", "true"}

\* names no registry entry has
UnknownNames == {"Foo", "Has", "Hashx", "MPBadDept", "multipv"}

\* the options of type check, and those stored as a float
BoolNames == {"NoobBook", "UCI_Chess960", "OnlineSyzygy"}
FloatNames ==
    {"LMRNoisyBase", "LMRNoisyDiv", "LMRQuietBase", "LMRQuietDiv", "TrendDiv"}

\* setoption lines with values that are not the text true, with a number of
\* hundredths, and with a number off the advertised range
ProbeLines ==
    {"setoption name " \o n \o " value " \o v :
        n \in BoolNames, v \in {"truex", "false", "TRUE"}}
    \cup {"setoption name " \o n \o " value 53" : n \in FloatNames}
    \cup {"setoption name IIRDepth value -200000"}

\* the option registry: a setoption line for each name and value, and uci
OptionLines ==
    {"setoption name " \o n \o " value " \o v :
        n \in Advertised \cup UnknownNames, v \in OptionValues}
    \cup ProbeLines
    \cup {"uci"}

\* every command, among them setoption lines without name or value and a
\* move list with a token that is no move
MalformedLines ==
    Lines \cup {"setoption", "setoption value 2", "setoption name MultiPV",
                "setoption name Foo", "position startpos moves e2e4 xyz"}

AllLines ==
    Lines \cup GoLines \cup MoveLines \cup OptionLines \cup MalformedLines
    \cup {""}

\* HashInput(l) for every line l
HashOf == [l \in AllLines |-> HashInput(l)]

(***************************************************************************)
(* main: the input loop and its handlers.  In each case of the switch, l   *)
(* is the line read and h is HashInput(l), the value switched on.  What a  *)
(* handler prints opens the window out, which holds what was written       *)
(* since the line was read.                                                *)
(***************************************************************************)
task == <<tasks, thread, window, infos>>

\* GetInput(str) returning true with the line l
GetInput(l) ==
    /\ pc = "read"
    /\ line' = l

\* where main continues when Stop returns: case QUIT returns 0
AfterStop == IF HashOf[line] = QUIT THEN "exited" ELSE "read"

\* a Go that leaves the abort flag as it finds it
GoCmdKeepAbort(l, h) ==
    /\ GetInput(l)
    /\ h = GO
    /\ NoTaskAlive
    /\ Len(tasks) < MaxGo
    /\ str' = l
    /\ pc' = "go_tt"
    /\ out' = << >>
    /\ UNCHANGED <<nset, pos, ABORT_SIGNAL, SEARCH_STOPPED, Limits, opt, engine,
                   task, now>>

\* case GO: Go(&pos, str), its first statement; the protocol sends no go
\* while a search task is alive
GoCmd(l, h) ==
    /\ GetInput(l)
    /\ h = GO
    /\ NoTaskAlive
    /\ Len(tasks) < MaxGo
    /\ str' = l
    /\ ABORT_SIGNAL' = FALSE
    /\ pc' = "go_tt"
    /\ out' = << >>
    /\ UNCHANGED <<nset, pos, SEARCH_STOPPED, Limits, opt, engine, task, now>>

\* Go: InitTT()
GoInitTT ==
    /\ pc = "go_tt"
    /\ engine' = InitTT(engine, opt)
    /\ pc' = "go_parse"
    /\ UNCHANGED <<line, str, nset, pos, ABORT_SIGNAL, SEARCH_STOPPED, Limits,
                   opt, task, out, now>>

\* Go: ParseTimeControl(str, pos)
GoParseTimeControl ==
    /\ pc = "go_parse"
    /\ Limits' \in StoredBeyond(ParseTimeControl(Limits, str, pos, now), str)
    /\ str' = StrAfterParse(str)
    /\ pc' = "go_start"
    /\ UNCHANGED <<line, nset, pos, ABORT_SIGNAL, SEARCH_STOPPED, opt, engine,
                   task, out, now>>

\* StartMainThread(SearchPosition, pos): the search task is created, not awaited
StartMainThread ==
    /\ SEARCH_STOPPED' = FALSE
    /\ tasks' = Append(tasks, "start")

\* a Go that starts the main thread twice
GoStartMainThreadTwice ==
    /\ pc = "go_start"
    /\ SEARCH_STOPPED' = FALSE
    /\ tasks' = tasks \o << "start", "start" >>
    /\ pc' = "read"
    /\ UNCHANGED <<line, str, nset, pos, ABORT_SIGNAL, Limits, opt, engine,
                   thread, window, infos, out, now>>

\* Go: StartMainThread(SearchPosition, pos), and the return to the loop
GoStartMainThread ==
    /\ pc = "go_start"
    /\ StartMainThread
    /\ pc' = "read"
    /\ UNCHANGED <<line, str, nset, pos, ABORT_SIGNAL, Limits, opt, engine,
                   thread, window, infos, out, now>>

\* case UCI: Info()
UciCmd(l, h) ==
    /\ GetInput(l)
    /\ h = UCI
    /\ str' = l
    /\ Info
    /\ UNCHANGED <<pc, nset, pos, ABORT_SIGNAL, SEARCH_STOPPED, Limits, opt,
                   engine, task, now>>

\* an IsReady that answers twice
IsReadyTwice ==
    /\ engine' = InitTT(engine, opt)
    /\ out' = << "readyok", "readyok" >>

\* IsReady(): Reinit(), which touches nothing kept here; InitTT();
\* puts("readyok")
IsReady ==
    /\ engine' = InitTT(engine, opt)
    /\ out' = << "readyok" >>

\* case ISREADY: IsReady()
IsReadyCmd(l, h) ==
    /\ GetInput(l)
    /\ h = ISREADY
    /\ str' = l
    /\ IsReady
    /\ UNCHANGED <<pc, nset, pos, ABORT_SIGNAL, SEARCH_STOPPED, Limits, opt,
                   task, now>>

\* the loop of Pos over the tokens behind "moves"
RECURSIVE PlayMoves(_, _, _)
PlayMoves(p, toks, i) ==
    IF i > Len(toks) THEN p
    ELSE LET q == MakeMove(p, ParseMove(toks[i], p))
         IN  PlayMoves([q EXCEPT !.gameMoves =
                           @ + (IF q.sideToMove = WHITE THEN 1 ELSE 0)],
                       toks, i + 1)

\* Pos(pos, str): the position afterwards
PosAfter(s) ==
    LET isFen == StartsWithAt(s, 1, "position fen")
        p0    == ParseFen(IF isFen THEN From(s, 14) ELSE START_FEN)
    IN  IF StrStr(s, "moves") = 0 THEN p0
        ELSE [PlayMoves(p0, Tail(StrTok(s, StrStr(s, "moves"))), 1)
                EXCEPT !.nodes = 0]

\* case POSITION: Pos(&pos, str)
PositionCmd(l, h) ==
    /\ GetInput(l)
    /\ h = POSITION
    /\ pos' = PosAfter(l)
    /\ str' = IF StrStr(l, "moves") = 0 THEN l ELSE CutBehind(l, StrStr(l, "moves"))
    /\ out' = << >>
    /\ UNCHANGED <<pc, nset, ABORT_SIGNAL, SEARCH_STOPPED, Limits, opt, engine,
                   task, now>>

\* case SETOPTION: SetOption(str), for a line that holds "name" and "value"
SetOptionCmd(l, h) ==
    /\ GetInput(l)
    /\ h = SETOPTION
    /\ nset < MaxSetOptions
    /\ StrStr(l, "name") # 0
    /\ StrStr(l, "value") # 0
    /\ nset' = nset + 1
    /\ str' = l
    /\ SetOption(l)
    /\ UNCHANGED <<pc, pos, ABORT_SIGNAL, SEARCH_STOPPED, engine, task, now>>

\* what an entry of the given kind assigns when the bytes it reads are no
\* number and not "true"
GarbageValue(kind) ==
    IF kind = "Bool" THEN FALSE
    ELSE IF kind = "Float" THEN FloatOfHundredths(0)
    ELSE IF kind = "tb_init" THEN ""
    ELSE 0

\* case SETOPTION: SetOption(str), for a line that lacks "name" or "value".
\* strstr returns NULL, and NULL + 5 or NULL + 6 points into no object: the
\* behaviour is undefined where strncmp or atoi reads through it, which is
\* the first test of the chain when "name" is missing, and the entry taken
\* when "value" is missing.  The read kills the process, or it finds bytes
\* that are no option name, no number and not "true".
SetOptionMalformedCmd(l, h) ==
    /\ GetInput(l)
    /\ h = SETOPTION
    /\ nset < MaxSetOptions
    /\ StrStr(l, "name") = 0 \/ StrStr(l, "value") = 0
    /\ nset' = nset + 1
    /\ str' = l
    /\ LET hit == IF StrStr(l, "name") = 0 THEN 0 ELSE ChainHit(l)
       IN  \/ /\ StrStr(l, "name") = 0 \/ hit # 0
              /\ pc' = "crashed"
              /\ out' = << >>
              /\ UNCHANGED <<opt, Limits>>
           \/ /\ pc' = pc
              /\ opt' = IF hit = 0 \/ OptionChain[hit][2] = "Limits.multiPV"
                        THEN opt
                        ELSE [opt EXCEPT ![OptionChain[hit][2]] =
                                            GarbageValue(OptionChain[hit][3])]
              /\ Limits' = IF hit # 0 /\ OptionChain[hit][2] = "Limits.multiPV"
                           THEN [Limits EXCEPT !.multiPV = GarbageValue("Int")]
                           ELSE Limits
              /\ out' = IF hit = 0 THEN << "info string No such option." >>
                        ELSE << >>
    /\ UNCHANGED <<pos, ABORT_SIGNAL, SEARCH_STOPPED, engine, task, now>>

\* NewGame(): ClearTT(); ResetThreads(); failedQueries = 0
NewGame == engine' = ClearedEngine(engine)

\* case UCINEWGAME: NewGame()
NewGameCmd(l, h) ==
    /\ GetInput(l)
    /\ h = UCINEWGAME
    /\ str' = l
    /\ NewGame
    /\ out' = << >>
    /\ UNCHANGED <<pc, nset, pos, ABORT_SIGNAL, SEARCH_STOPPED, Limits, opt,
                   task, now>>

\* Stop: ABORT_SIGNAL = true
StopSetAbort ==
    /\ ABORT_SIGNAL' = TRUE
    /\ pc' = "stop_wake"

\* case STOP: Stop(), its first statement
StopCmd(l, h) ==
    /\ GetInput(l)
    /\ h = STOP
    /\ str' = l
    /\ StopSetAbort
    /\ out' = << >>
    /\ UNCHANGED <<nset, pos, SEARCH_STOPPED, Limits, opt, engine, task, now>>

\* a quit that returns from main at once
QuitCmdExits(l, h) ==
    /\ GetInput(l)
    /\ h = QUIT
    /\ str' = l
    /\ pc' = "exited"
    /\ out' = << >>
    /\ UNCHANGED <<nset, pos, ABORT_SIGNAL, SEARCH_STOPPED, Limits, opt, engine,
                   task, now>>

\* case QUIT: Stop(), its first statement
QuitCmd(l, h) ==
    /\ GetInput(l)
    /\ h = QUIT
    /\ str' = l
    /\ StopSetAbort
    /\ out' = << >>
    /\ UNCHANGED <<nset, pos, SEARCH_STOPPED, Limits, opt, engine, task, now>>

\* a Stop that signals nobody
StopWakeNobody ==
    /\ pc = "stop_wake"
    /\ pc' = "stop_wait"
    /\ UNCHANGED <<line, str, nset, pos, ABORT_SIGNAL, SEARCH_STOPPED, Limits,
                   opt, engine, task, out, now>>

\* Stop: Wake()
StopWake ==
    /\ pc = "stop_wake"
    /\ \E w \in Wake("stop_wait", tasks) : pc' = w[1] /\ tasks' = w[2]
    /\ UNCHANGED <<line, str, nset, pos, ABORT_SIGNAL, SEARCH_STOPPED, Limits,
                   opt, engine, thread, window, infos, out, now>>

\* a Stop that returns without the wait
StopWaitReturns ==
    /\ pc = "stop_wait"
    /\ pc' = AfterStop
    /\ UNCHANGED <<line, str, nset, pos, ABORT_SIGNAL, SEARCH_STOPPED, Limits,
                   opt, engine, task, out, now>>

\* Stop: Wait(&SEARCH_STOPPED), one test of the condition; Stop returns when
\* it holds and the thread sleeps on the condition variable when it does not
StopWait ==
    /\ pc = "stop_wait"
    /\ pc' = IF SEARCH_STOPPED THEN AfterStop ELSE "stop_parked"
    /\ UNCHANGED <<line, str, nset, pos, ABORT_SIGNAL, SEARCH_STOPPED, Limits,
                   opt, engine, task, out, now>>

\* the switch has no case for the hash: the line is dropped
Ignored(l, h) ==
    /\ GetInput(l)
    /\ h \notin Commands
    /\ str' = l
    /\ out' = << >>
    /\ UNCHANGED <<pc, nset, pos, ABORT_SIGNAL, SEARCH_STOPPED, Limits, opt,
                   engine, task, now>>

\* GetInput(str) returning false: the loop ends and main returns
EndOfInput ==
    /\ pc = "read"
    /\ pc' = "exited"
    /\ UNCHANGED <<line, str, nset, pos, ABORT_SIGNAL, SEARCH_STOPPED, Limits,
                   opt, engine, task, out, now>>

(***************************************************************************)
(* The search task (SearchPosition).                                       *)
(***************************************************************************)
ctl == <<pc, line, str, nset, pos>>

\* the indices of tasks: a go line each
TaskIds == 1..MaxGo

\* the task prepares the main Thread and starts to search: it fills the
\* transposition storage
TaskBegin(i) ==
    /\ ProcessRuns
    /\ i \in DOMAIN tasks
    /\ tasks[i] = "start"
    /\ tasks' = [tasks EXCEPT ![i] = "searching"]
    /\ thread' = FreshThread(pos)
    /\ window' = FullWindow
    /\ infos' = 0
    /\ engine' = [engine EXCEPT !.ttDirty = TRUE, !.threadsDirty = TRUE]
    /\ UNCHANGED <<ctl, ABORT_SIGNAL, SEARCH_STOPPED, Limits, opt, out, now>>

\* the search reports its progress: PrintThinking(thread, alpha, beta) on
\* the thread as it is then, th, with the window w
TaskReportOf(i, th, w) ==
    /\ ProcessRuns
    /\ i \in DOMAIN tasks
    /\ tasks[i] = "searching"
    /\ infos < MaxInfo
    /\ infos' = infos + 1
    /\ thread' = th
    /\ window' = w
    /\ out' = out \o PrintThinking(th, w[1], w[2], Limits, now)
    /\ UNCHANGED <<ctl, ABORT_SIGNAL, SEARCH_STOPPED, Limits, opt, engine,
                   tasks, now>>

TaskReport(i) ==
    \E th \in ReportedThreads(pos) : TaskReportOf(i, th, FullWindow)

\* the search polls the abort flag and gives up
TaskPollAbort(i) ==
    /\ ProcessRuns
    /\ i \in DOMAIN tasks
    /\ tasks[i] = "searching"
    /\ ABORT_SIGNAL
    /\ tasks' = [tasks EXCEPT ![i] = "conclusion"]
    /\ UNCHANGED <<ctl, ABORT_SIGNAL, SEARCH_STOPPED, Limits, opt, engine,
                   thread, window, infos, out, now>>

\* the search ends by its own limits
TaskFinish(i) ==
    /\ ProcessRuns
    /\ i \in DOMAIN tasks
    /\ tasks[i] = "searching"
    /\ tasks' = [tasks EXCEPT ![i] = "conclusion"]
    /\ UNCHANGED <<ctl, ABORT_SIGNAL, SEARCH_STOPPED, Limits, opt, engine,
                   thread, window, infos, out, now>>

\* if (Limits.infinite) Wait(&ABORT_SIGNAL), one test of the condition
TaskWaitStop(i) ==
    /\ ProcessRuns
    /\ i \in DOMAIN tasks
    /\ tasks[i] = "conclusion"
    /\ tasks' = [tasks EXCEPT ![i] =
                    IF Limits.infinite /\ ~ABORT_SIGNAL THEN "parked"
                    ELSE "concluding"]
    /\ UNCHANGED <<ctl, ABORT_SIGNAL, SEARCH_STOPPED, Limits, opt, engine,
                   thread, window, infos, out, now>>

\* the helpers are told to stop and the conclusion is printed
TaskConclude(i) ==
    /\ ProcessRuns
    /\ i \in DOMAIN tasks
    /\ tasks[i] = "concluding"
    /\ ABORT_SIGNAL' = TRUE
    /\ out' = Append(out, PrintConclusion(thread))
    /\ tasks' = [tasks EXCEPT ![i] = "signal"]
    /\ UNCHANGED <<ctl, SEARCH_STOPPED, Limits, opt, engine, thread,
                   window, infos, now>>

\* SEARCH_STOPPED = true; Wake(); the task returns
TaskSignalStopped(i) ==
    /\ ProcessRuns
    /\ i \in DOMAIN tasks
    /\ tasks[i] = "signal"
    /\ SEARCH_STOPPED' = TRUE
    /\ \E w \in Wake(pc, [tasks EXCEPT ![i] = "done"]) :
          pc' = w[1] /\ tasks' = w[2]
    /\ UNCHANGED <<line, str, nset, pos, ABORT_SIGNAL, Limits, opt, engine,
                   thread, window, infos, out, now>>

\* the clock advances
Tick ==
    /\ ProcessRuns
    /\ now < MaxNow
    /\ now' = now + 1
    /\ UNCHANGED <<ctl, ABORT_SIGNAL, SEARCH_STOPPED, Limits, opt, engine,
                   task, out>>

(***************************************************************************)
(* The steps of the control thread inside Go and Stop, and the steps of    *)
(* search task i but its progress reports.                                 *)
(***************************************************************************)
GoSteps == GoInitTT \/ GoParseTimeControl \/ GoStartMainThread

StopSteps == StopWake \/ StopWait

TaskSteps(i) ==
    \/ TaskBegin(i)
    \/ TaskPollAbort(i)
    \/ TaskFinish(i)
    \/ TaskWaitStop(i)
    \/ TaskConclude(i)
    \/ TaskSignalStopped(i)

(***************************************************************************)
(* The dispatcher: every command of the protocol.                          *)
(***************************************************************************)
Next ==
    \/ \E l \in Lines : LET h == HashOf[l] IN
          \/ GoCmd(l, h)
          \/ UciCmd(l, h)
          \/ IsReadyCmd(l, h)
          \/ PositionCmd(l, h)
          \/ SetOptionCmd(l, h)
          \/ NewGameCmd(l, h)
          \/ StopCmd(l, h)
          \/ QuitCmd(l, h)
          \/ Ignored(l, h)
    \/ GoSteps
    \/ StopSteps
    \/ EndOfInput
    \/ \E i \in TaskIds : TaskSteps(i)

Spec == Init /\ [][Next]_vars

(***************************************************************************)
(* The dispatcher on input that never ends and holds malformed lines.      *)
(***************************************************************************)
MalformedNext ==
    \/ \E l \in MalformedLines : LET h == HashOf[l] IN
          \/ GoCmd(l, h)
          \/ UciCmd(l, h)
          \/ IsReadyCmd(l, h)
          \/ PositionCmd(l, h)
          \/ SetOptionCmd(l, h)
          \/ SetOptionMalformedCmd(l, h)
          \/ NewGameCmd(l, h)
          \/ StopCmd(l, h)
          \/ QuitCmd(l, h)
          \/ Ignored(l, h)
    \/ GoSteps
    \/ StopSteps
    \/ \E i \in TaskIds : TaskSteps(i)

MalformedSpec == Init /\ [][MalformedNext]_vars

(***************************************************************************)
(* The lifecycle of the search: go, stop and quit, with a search task that *)
(* reports its progress.                                                   *)
(***************************************************************************)
LifeNext ==
    \/ \E l \in LifeLines : LET h == HashOf[l] IN
          \/ GoCmd(l, h)
          \/ StopCmd(l, h)
          \/ QuitCmd(l, h)
    \/ GoSteps
    \/ StopSteps
    \/ EndOfInput
    \/ \E i \in TaskIds : TaskSteps(i) \/ TaskReport(i)

LifeSpec == Init /\ [][LifeNext]_vars

\* the control thread and the search task are scheduled: a step that stays
\* possible is taken
Scheduled ==
    /\ WF_vars(StopSteps)
    /\ \A i \in TaskIds : /\ WF_vars(TaskBegin(i))
                          /\ WF_vars(TaskPollAbort(i))
                          /\ WF_vars(TaskWaitStop(i))
                          /\ WF_vars(TaskConclude(i))
                          /\ WF_vars(TaskSignalStopped(i))

FairLifeSpec == LifeSpec /\ Scheduled

(***************************************************************************)
(* The time control: go lines between position and setoption lines, under  *)
(* a clock that advances.                                                  *)
(***************************************************************************)
GoNext ==
    \/ \E l \in GoLines : LET h == HashOf[l] IN
          \/ GoCmd(l, h)
          \/ PositionCmd(l, h)
          \/ SetOptionCmd(l, h)
          \/ StopCmd(l, h)
    \/ GoSteps
    \/ StopSteps
    \/ \E i \in TaskIds : TaskSteps(i)
    \/ Tick

GoSpec == Init /\ [][GoNext]_vars

(***************************************************************************)
(* The searchmoves of go lines, both sides to move, one search after the   *)
(* other.                                                                  *)
(***************************************************************************)
MoveNext ==
    \/ \E l \in MoveLines : LET h == HashOf[l] IN
          \/ GoCmd(l, h)
          \/ PositionCmd(l, h)
          \/ StopCmd(l, h)
    \/ GoSteps
    \/ StopSteps
    \/ \E i \in TaskIds : TaskSteps(i)

MoveSpec == Init /\ [][MoveNext]_vars

(***************************************************************************)
(* The option registry: setoption lines, and uci to show the registry.     *)
(***************************************************************************)
OptionNext ==
    \E l \in OptionLines : LET h == HashOf[l] IN
        \/ SetOptionCmd(l, h)
        \/ UciCmd(l, h)

OptionSpec == Init /\ [][OptionNext]_vars

(***************************************************************************)
(* The progress reports of one search: MultiPV is set or left alone, go    *)
(* infinite starts the search, and the search reports the thread as it     *)
(* finds it, with the window it is searching.                              *)
(***************************************************************************)
ReportLines == {"setoption name MultiPV value 3", "go infinite"}

\* the scores a root move is reported with
ProbedScores ==
    {0 - MATE, 0 - 30500, 0 - MATE_IN_MAX, 0 - 30000, 2, 5, 50, 60, 30999,
     MATE}

\* the windows an aspiration search reports with
Windows == {FullWindow, <<2, 50>>}

\* the node counts of all threads together
NodeCounts == {0, 2147483, 2147484, 3000000}

\* a root move with a principal variation, and one without
FilledSlot(m, score) == [move |-> m, score |-> score, pv |-> <<m>>]
LongSlot(m, score, n) == [move |-> m, score |-> score, pv |-> [j \in 1..n |-> m]]
EmptySlot == [move |-> NOMOVE, score |-> 0, pv |-> << >>]

\* the thread with these root moves and this node count
ThreadWith(rms, nodes) ==
    [depth |-> 1, nodes |-> nodes, tbhits |-> 0, hashFull |-> 0,
     keys |-> <<7>>, rootMoves |-> rms]

\* the states of the thread the search may report, each with its window
SearchedThreads(p) ==
    LET m == CHOOSE x \in LegalMoves(p) : TRUE
        F == FilledSlot(m, 25)
    IN  {<<ThreadWith(<<FilledSlot(m, s)>>, 20), FullWindow>> :
            s \in ProbedScores}
        \cup {<<ThreadWith(<<FilledSlot(m, s)>>, 20), w>> :
                 s \in {x \in ProbedScores : Abs(x) < 30000}, w \in Windows}
        \cup {<<ThreadWith(<<F>>, n), FullWindow>> : n \in NodeCounts}
        \cup {<<ThreadWith(<<LongSlot(m, r[1], r[2])>>, 20), FullWindow>> :
                 r \in {<<8, 2>>, <<0 - 8, 2>>, <<8, 3>>, <<0 - 5, 3>>,
                        <<9, 1>>, <<0 - 9, 2>>}}
        \cup {<<[ThreadWith(<<F, F>>, 20) EXCEPT !.keys = ks], FullWindow>> :
                 ks \in {<< >>, <<0, 0>>, <<7, 0, 9>>,
                         [j \in 1..SelDepthStart |-> 7],
                         [j \in 1..(SelDepthStart + 1) |->
                             IF j > SelDepthStart THEN 7 ELSE 0]}}
        \cup {<<ThreadWith(rms, 20), FullWindow>> :
                 rms \in {<<F, F, F>>, <<EmptySlot, F>>,
                          <<F, EmptySlot, F>>, <<F, FilledSlot(m, 0 - MATE)>>}}

TaskReportAny(i) ==
    \E r \in SearchedThreads(pos) : TaskReportOf(i, r[1], r[2])

\* the options are set before the search starts, and the clock is watched
\* from then on
ReportNext ==
    \/ \E l \in ReportLines : LET h == HashOf[l] IN
           \/ GoCmd(l, h)
           \/ tasks = << >> /\ SetOptionCmd(l, h)
    \/ GoSteps
    \/ \E i \in TaskIds : TaskBegin(i) \/ TaskReportAny(i)
    \/ tasks # << >> /\ Tick

ReportSpec == Init /\ [][ReportNext]_vars

(***************************************************************************)
(* Properties of the lifecycle.                                            *)
(***************************************************************************)
\* where the control thread is inside Stop, and inside Go
StopPcs == {"stop_wake", "stop_wait", "stop_parked"}
GoPcs == {"go_tt", "go_parse", "go_start"}

\* the order of the steps of Go
GoOrder ==
    {<<"go_tt", "go_parse">>, <<"go_parse", "go_start">>, <<"go_start", "read">>}

\* the first token of a line, tabulated for the input lines
FirstToken(l) == LET t == StrTok(l, 1) IN IF t = << >> THEN "" ELSE Head(t)
TokenOf == [l \in AllLines |-> FirstToken(l)]
LeadingToken(l) == TokenOf[l]

\* the hash of the first token, tabulated for the input lines
TokenHash == [l \in AllLines |-> HashInput(FirstToken(l))]

\* the last line read was stop or quit, and Stop has returned
StopReturned == HashOf[line] \in {STOP, QUIT} /\ pc \in {"read", "exited"}

\* C1: once Stop has returned, no search task is alive, and until the next
\* line is read nothing more (no info line, no bestmove line) is written.
C1_StopObservesTermination ==
    /\ [](StopReturned => NoTaskAlive)
    /\ [][StopReturned /\ pc' \in {"read", "exited"} => out' = out]_vars

\* Stop has returned after a search task wrote its conclusion behind the stop
C1_StoppedRunningSearch == StopReturned /\ tasks # << >> /\ out # << >>

\* C2: whenever the control thread is inside Stop, it eventually leaves Stop,
\* and then no search task is alive: with no search running, with a search
\* that polls the abort flag, and with a search parked in its infinite wait.
C2_StopReturns ==
    (pc \in StopPcs) ~> (pc \in {"read", "exited"} /\ NoTaskAlive)

\* Stop is called while the search is parked in its infinite wait
C2_StopOfParkedSearch ==
    pc = "stop_wake" /\ \E i \in DOMAIN tasks : tasks[i] = "parked"

\* C3: inside Go the abort flag is false; the control thread goes through
\* InitTT, ParseTimeControl and StartMainThread in this order; and the step
\* that starts the search task finds the flag false, the storage sized, and
\* Limits holding what this go line parses to, and ends in the input loop
\* with the task alive.
C3_GoStartsCleanSearch ==
    /\ [](pc \in GoPcs => ~ABORT_SIGNAL)
    /\ [][(pc' # pc) /\ pc \in GoPcs =>
            <<pc, pc'>> \in GoOrder]_vars
    /\ [][Len(tasks') > Len(tasks) =>
            /\ ~ABORT_SIGNAL /\ ~ABORT_SIGNAL'
            /\ engine.ttMB = opt["TT.requestedMB"]
            /\ Limits = ParseTimeControl(Limits, line, pos, Limits.start)
            /\ Limits' = Limits
            /\ Alive(tasks', Len(tasks'))
            /\ pc' = "read"]_vars

\* a second search has just been started, after the first one set the flag
C3_SecondSearchStarted ==
    /\ Len(tasks) = 2 /\ tasks[2] = "start" /\ tasks[1] = "done"
    /\ pc = "read" /\ ~ABORT_SIGNAL

\* the search tasks that are alive
AliveTasks == {i \in DOMAIN tasks : Alive(tasks, i)}

\* the state of the lifecycle: control thread at c, tasks ts
Lifecycle(c, ts) ==
    IF \A i \in DOMAIN ts : ~Alive(ts, i) THEN "IDLE"
    ELSE IF c \in StopPcs THEN "STOPPING"
    ELSE "RUNNING"

LifecycleMoves ==
    {<<"IDLE", "RUNNING">>, <<"RUNNING", "IDLE">>, <<"RUNNING", "STOPPING">>,
     <<"STOPPING", "IDLE">>}

\* C4: with no go sent while a search task is alive, at most one search task
\* is alive in every state, the step that ends Go adds exactly one task and
\* no other step adds any, and the lifecycle changes only from IDLE to
\* RUNNING, from RUNNING to IDLE or STOPPING, and from STOPPING to IDLE.
C4_OneSearchAtATime ==
    /\ [](Cardinality(AliveTasks) <= 1)
    /\ [][Len(tasks') = Len(tasks) +
            (IF pc = "go_start" /\ pc' = "read" THEN 1 ELSE 0)]_vars
    /\ [][Lifecycle(pc', tasks') # Lifecycle(pc, tasks) =>
            <<Lifecycle(pc, tasks), Lifecycle(pc', tasks')>> \in LifecycleMoves]_vars

\* the second search is being stopped
C4_SecondSearchStopping ==
    /\ Len(tasks) = 2 /\ ~Alive(tasks, 1) /\ Alive(tasks, 2)
    /\ Lifecycle(pc, tasks) = "STOPPING"

(***************************************************************************)
(* Properties of the dispatcher.                                           *)
(***************************************************************************)
\* the keywords of the protocol, and with them those of a DEV build
Keywords ==
    {"go", "uci", "isready", "position", "setoption", "ucinewgame", "stop",
     "quit"}
Recognized == Keywords \cup {"eval", "print", "perft"}

\* C5: reading a line whose leading token is not recognized writes nothing
\* and changes nothing but the line read: no handler runs.
C5_UnrecognizedIgnored ==
    [][line' # line /\ LeadingToken(line') \notin Recognized =>
          /\ out' = << >>
          /\ UNCHANGED <<pc, pos, ABORT_SIGNAL, SEARCH_STOPPED, Limits, opt,
                         engine, tasks, thread, window,
                         infos>>]_vars

\* the hashes of the keywords
KeywordHash == [k \in Keywords |-> HashInput(k)]

\* the hashes of the keywords differ pairwise: there are as many hashes as
\* keywords
KeywordsDistinct ==
    Cardinality({KeywordHash[k] : k \in Keywords}) = Cardinality(Keywords)

\* the step is what the handler of the leading token of l does with l
Routed(l) ==
    LET k == LeadingToken(l)
    IN  /\ k = "go" => pc' = "go_tt" /\ ~ABORT_SIGNAL'
        /\ k = "uci" => out' = InfoOutput(opt)
        /\ k = "isready" => out' = << "readyok" >> /\ engine' = InitTT(engine, opt)
        /\ k = "position" => pos' = PosAfter(l)
        /\ k = "setoption" => /\ opt' = OptAfterSetOption(opt, l)
                              /\ Limits' = LimitsAfterSetOption(Limits, l)
                              /\ nset' = nset + 1
        /\ k = "ucinewgame" => engine' = ClearedEngine(engine)
        /\ k \in {"stop", "quit"} => pc' = "stop_wake" /\ ABORT_SIGNAL'

\* C6: the hashes of the eight keywords differ pairwise, the hash of a line
\* is the hash of its leading token, a line read whose leading token is a
\* keyword is handled by the handler of that keyword, and main returns from
\* Stop to the loop for stop and to its end for quit.
C6_HashRoutesKeywords ==
    /\ [](KeywordsDistinct /\ HashOf[line] = TokenHash[line])
    /\ [][line' # line => Routed(line')]_vars
    /\ [][(pc' # pc) /\ pc \in StopPcs /\ pc' \notin StopPcs =>
            pc' = (IF LeadingToken(line) = "quit" THEN "exited" ELSE "read")]_vars

\* a go line of two tokens has reached Go
C6_GoLineRouted == line = "go infinite" /\ pc = "go_tt"

(***************************************************************************)
(* Properties of the option registry.                                      *)
(***************************************************************************)
\* the name and the value of a setoption line
NameOf(l) == StrTok(l, 1)[3]
ValueOf(l) == StrTok(l, 1)[5]

\* the names the chain of SetOption tests
Registered == {OptionChain[i][1] : i \in 1..Len(OptionChain)}

\* the storage location of the option named n
OwnStorage(n) ==
    CASE n = "Hash" -> "TT.requestedMB"
      [] n = "Threads" -> "threads.count"
      [] n = "SyzygyPath" -> "TB_PATH"
      [] n = "MultiPV" -> "Limits.multiPV"
      [] n = "NoobBookLimit" -> "noobLimit"
      [] n = "NoobBook" -> "noobbook"
      [] n = "UCI_Chess960" -> "chess960"
      [] n = "OnlineSyzygy" -> "onlineSyzygy"
      [] OTHER -> n

\* what the storage location st holds
Held(o, L, st) == IF st = "Limits.multiPV" THEN L.multiPV ELSE o[st]

\* the line of the handshake for the option named n showing the number v
ShownLine(n, v) ==
    "option name " \o n \o " type spin default " \o Dec(v) \o TunableRange

\* the names whose line of the handshake prints the storage as it is
ShownAsStored == {InfoLines[i][1] : i \in {j \in 1..Len(InfoLines) : InfoLines[j][3] = "Int"}}

\* C7: a setoption line for an advertised name stores the decoded value in
\* the storage of that name and leaves every other storage as it was, and a
\* uci line behind it shows the value.
C7_OptionStoredInOwnStorage ==
    /\ [][line' # line /\ LeadingToken(line') = "setoption"
             /\ NameOf(line') \in Advertised =>
            LET st == OwnStorage(NameOf(line'))
            IN  /\ Held(opt', Limits', st) = AssignedValue(line', KindOf(st))
                /\ \A o \in (Storages \cup {"Limits.multiPV"}) \ {st} :
                      Held(opt', Limits', o) = Held(opt, Limits, o)]_vars
    /\ [][LeadingToken(line) = "setoption" /\ NameOf(line) \in ShownAsStored
             /\ line' = "uci" =>
            \E i \in DOMAIN out' :
               out'[i] = ShownLine(NameOf(line), IntValue(line))]_vars

\* C8: a setoption line for a name that no registry entry has changes no
\* option and writes the line "info string No such option.".
C8_UnknownOptionRejected ==
    [][line' # line /\ LeadingToken(line') = "setoption"
          /\ NameOf(line') \notin Registered \cup Advertised =>
         /\ opt' = opt
         /\ Limits' = Limits
         /\ out' = << "info string No such option." >>]_vars

\* C19: a setoption line for NoobBook, UCI_Chess960 or OnlineSyzygy stores
\* true when its value is the text true and false for every other value,
\* also for one that only starts with true.
C19_TrueOnlyForTrue ==
    [][(line' # line) /\ LeadingToken(line') = "setoption"
          /\ NameOf(line') \in BoolNames =>
         opt'[OwnStorage(NameOf(line'))] = (ValueOf(line') = "true")]_vars

\* C20: a setoption line stores the number v of its value as it is, also off
\* the advertised range, for an option held as an int; for an option held as
\* a float it stores the float of v / 100, and a uci line behind it shows v
\* again.
C20_StoredAsGiven ==
    /\ [][(line' # line) /\ LeadingToken(line') = "setoption"
             /\ NameOf(line') \in ShownAsStored =>
            opt'[OwnStorage(NameOf(line'))] = Atoi(ValueOf(line'), 1)]_vars
    /\ [][(line' # line) /\ LeadingToken(line') = "setoption"
             /\ NameOf(line') \in FloatNames =>
            opt'[OwnStorage(NameOf(line'))]
               = FloatOfHundredths(Atoi(ValueOf(line'), 1))]_vars
    /\ [][LeadingToken(line) = "setoption" /\ NameOf(line) \in FloatNames
             /\ line' = "uci" =>
            \E i \in DOMAIN out' :
               out'[i] = ShownLine(NameOf(line), Atoi(ValueOf(line), 1))]_vars

(***************************************************************************)
(* Properties of the time control.                                         *)
(***************************************************************************)
\* whether the text t occurs in the line l
Occurs(l, t) == \E i \in 1..Len(l) : StartsWithAt(l, i, t)

\* the number behind the token kw of the line l, 0 when l has no such token
Given(l, kw) ==
    LET t == StrTok(l, 1)
        at == {i \in 1..(Len(t) - 1) : t[i] = kw}
    IN  IF at = {} THEN 0 ELSE Atoi(t[(CHOOSE i \in at : TRUE) + 1], 1)

\* the keyword of a numeric field of Limits, side s to move
KeywordOf(f, s) ==
    CASE f = "time" -> IF s = WHITE THEN "wtime" ELSE "btime"
      [] f = "inc" -> IF s = WHITE THEN "winc" ELSE "binc"
      [] OTHER -> f

C10_DerivedLimits ==
    pc = "go_start" =>
       /\ Limits.timelimit = (Limits.time # 0 \/ Limits.movetime # 0)
       /\ Limits.depth = (IF Given(line, "depth") # 0 THEN Given(line, "depth")
                          ELSE 100)
       /\ Limits.depth # 0
       /\ Limits.infinite = Occurs(line, "infinite")
       /\ \A f \in {"time", "inc", "movestogo", "movetime", "mate"} :
             ~Occurs(line, KeywordOf(f, pos.sideToMove)) => Limits[f] = 0
       /\ ~Occurs(line, "depth") => Limits.depth = 100
       /\ line = "go depth 10" =>
             /\ Limits.depth = 10 /\ ~Limits.timelimit
             /\ ~Limits.infinite /\ Limits.mate = 0
       /\ line = "go infinite" =>
             Limits.infinite /\ Limits.depth = 100 /\ ~Limits.timelimit

\* a go line with a clock and no depth is parsed
C10_ClockWithoutDepth ==
    /\ pc = "go_start" /\ Limits.timelimit /\ Limits.time = 60000
    /\ Limits.depth = 100 /\ ~Limits.infinite

\* C11: after ParseTimeControl, time and inc are the numbers behind the
\* clock and the increment of the side to move (wtime and winc for white,
\* btime and binc for black), and timelimit holds iff that clock or movetime
\* is not 0, whatever the line gives for the other side; a line with neither
\* the clock of the side to move nor movetime gives time 0 and no timelimit.
C11_ClockOfSideToMove ==
    pc = "go_start" =>
       LET clock == KeywordOf("time", pos.sideToMove)
           incr  == KeywordOf("inc", pos.sideToMove)
       IN  /\ Limits.time = Given(line, clock)
           /\ Limits.inc = Given(line, incr)
           /\ Limits.timelimit =
                 (Given(line, clock) # 0 \/ Given(line, "movetime") # 0)
           /\ ~Occurs(line, clock) /\ ~Occurs(line, "movetime") =>
                 Limits.time = 0 /\ ~Limits.timelimit

\* black is to move and the line gives both clocks
C11_BlackClockAmongBoth ==
    /\ pc = "go_start" /\ pos.sideToMove = BLACK
    /\ line = "go wtime 60000 btime 300 winc 1000 binc 20"
    /\ Limits.time = 300 /\ Limits.inc = 20 /\ Limits.timelimit

(***************************************************************************)
(* Properties of the progress reporter.  A report is a step of the search  *)
(* that counts one more report; the lines it prints are those out gains.   *)
(***************************************************************************)
\* the words of a printed line
Words(l) == StrTok(l, 1)

\* the n-th word behind the first word kw among the words ws, "" when there
\* is none
WordBehind(ws, kw, n) ==
    LET at == {i \in DOMAIN ws : ws[i] = kw}
    IN  IF at = {} THEN ""
        ELSE LET i == CHOOSE x \in at : \A y \in at : x <= y
             IN  IF i + n \in DOMAIN ws THEN ws[i + n] ELSE ""

Behind(l, kw, n) == WordBehind(Words(l), kw, n)

\* what a printed info line says, read back from its text
ReadLine(l) ==
    CHOOSE r \in {[slot   |-> Atoi(WordBehind(ws, "multipv", 1), 1),
                   seldepth |-> Atoi(WordBehind(ws, "seldepth", 1), 1),
                   type   |-> WordBehind(ws, "score", 1),
                   value  |-> Atoi(WordBehind(ws, "score", 2), 1),
                   marker |-> WordBehind(ws, "score", 3),
                   time   |-> Atoi(WordBehind(ws, "time", 1), 1),
                   nodes  |-> Atoi(WordBehind(ws, "nodes", 1), 1),
                   nps    |-> Atoi(WordBehind(ws, "nps", 1), 1)]
                  : ws \in {Words(l)}} : TRUE

\* C12: every line of a report on a slot with internal score s and window
\* alpha < beta carries lowerbound iff s >= beta, upperbound iff s <= alpha
\* (and s < beta), and no marker iff alpha < s < beta, whatever the printed
\* score is
C12_BoundMarker ==
    [][(infos' = infos + 1) =>
         \A r \in {ReadLine(out'[j]) : j \in (Len(out) + 1)..Len(out')} :
            LET s     == RootMove(thread', r.slot - 1).score
                alpha == window'[1]
                beta  == window'[2]
            IN  /\ r.marker \in {"lowerbound", "upperbound", "time"}
                /\ (r.marker = "lowerbound") <=> (s >= beta)
                /\ (r.marker = "upperbound") <=> (s <= alpha /\ s < beta)
                /\ (r.marker = "time") <=> (alpha < s /\ s < beta)]_vars

\* a score on the upper edge of a narrowed window has been reported
C12_UpperEdgeReported ==
    /\ infos > 0
    /\ window = <<2, 50>>
    /\ RootMove(thread, 0).score = 50
    /\ \E j \in DOMAIN out : Behind(out[j], "score", 3) = "lowerbound"

\* C13: every line of a report on a slot with internal score s has type
\* mate when MATE_IN_MAX <= |s| <= MATE, with the value v = the least n with
\* 2 * n >= MATE - |s| carrying the sign of s, and type cp when
\* |s| < MATE_IN_MAX
C13_MateDistance ==
    [][(infos' = infos + 1) =>
         \A r \in {ReadLine(out'[j]) : j \in (Len(out) + 1)..Len(out')} :
            LET s    == RootMove(thread', r.slot - 1).score
                dist == MATE - Abs(s)
            IN  /\ (Abs(s) >= MATE_IN_MAX /\ Abs(s) <= MATE) =>
                      /\ r.type = "mate"
                      /\ 2 * Abs(r.value) >= dist
                      /\ 2 * (Abs(r.value) - 1) < dist
                      /\ s > 0 => r.value >= 0
                      /\ s < 0 => r.value <= 0
                /\ Abs(s) < MATE_IN_MAX => r.type = "cp"]_vars

\* a score of being mated in 250 moves has been reported
C13_MatedReported ==
    /\ infos > 0
    /\ RootMove(thread, 0).score = 0 - 30500
    /\ \E j \in DOMAIN out :
          Behind(out[j], "score", 1) = "mate" /\ Behind(out[j], "score", 2) = "-250"

C18_NpsExactQuotient ==
    [][(infos' = infos + 1) =>
         \A r \in {ReadLine(out'[j]) : j \in (Len(out) + 1)..Len(out')} :
            LET d == (now - Limits.start) + 1
                a == thread'.nodes \div d
                b == thread'.nodes % d
            IN  /\ d > 0
                /\ r.nodes = thread'.nodes
                /\ r.time + 1 = d
                /\ (r.nps - (1000 * b) \div d) % 1000 = 0
                /\ (r.nps - (1000 * b) \div d) \div 1000 = a]_vars

(***************************************************************************)
(* Properties of quit, stop and isready.                                   *)
(***************************************************************************)
\* C16: quit and stop both run Stop: reading either sets the abort flag and
\* enters Stop, Stop is left only from its wait with SEARCH_STOPPED set,
\* to the end of main for quit and to the input loop for stop; so the
\* process has exited on quit only with no search task alive, and main is
\* back in its loop after stop only with no search task alive.
C16_QuitStopsThenExits ==
    /\ [](pc = "exited" /\ LeadingToken(line) = "quit" =>
             NoTaskAlive /\ SEARCH_STOPPED /\ ABORT_SIGNAL)
    /\ [](pc = "read" /\ LeadingToken(line) = "stop" => NoTaskAlive)
    /\ [][(line' # line) /\ LeadingToken(line') \in {"stop", "quit"} =>
            pc' = "stop_wake" /\ ABORT_SIGNAL']_vars
    /\ [][(pc' # pc) /\ pc \in StopPcs /\ pc' \notin StopPcs =>
            /\ pc = "stop_wait"
            /\ SEARCH_STOPPED
            /\ pc' = (IF LeadingToken(line) = "quit" THEN "exited"
                      ELSE "read")]_vars

\* the process has exited on a quit read while a search was running, after
\* the search wrote its conclusion
C16_QuitDuringSearch ==
    /\ pc = "exited" /\ line = "quit"
    /\ tasks # << >> /\ out # << >>

\* C17: reading isready, whatever the search is doing, writes exactly one
\* readyok in the same step and leaves main in its loop; it starts no
\* search task and moves none, and changes neither the abort flag, nor
\* SEARCH_STOPPED, nor Limits.
C17_IsReadyAnswersAtOnce ==
    [][(line' # line) /\ LeadingToken(line') = "isready" =>
          /\ out' = << "readyok" >>
          /\ pc = "read" /\ pc' = "read"
          /\ UNCHANGED <<tasks, thread, window, infos, ABORT_SIGNAL,
                         SEARCH_STOPPED, Limits, pos, opt>>]_vars

\* isready has been answered while a search task is searching
C17_ReadyDuringSearch ==
    /\ line = "isready" /\ out = << "readyok" >> /\ pc = "read"
    /\ \E i \in DOMAIN tasks : tasks[i] = "searching"
    /\ ~ABORT_SIGNAL /\ ~SEARCH_STOPPED

(***************************************************************************)
(* Properties of the dispatcher on malformed input.                        *)
(***************************************************************************)
\* C15: the process ends only by quit: whatever lines are read, well-formed
\* or not, the process has ended only when the line read last is quit;
\* after every other line main is in its loop or in the handler of the line
C15_OnlyQuitTerminates == ~ProcessRuns => LeadingToken(line) = "quit"

(***************************************************************************)
(* Properties of the searchmoves.                                          *)
(***************************************************************************)
\* the words of a go line behind its word searchmoves, none without it
MoveWords(l) ==
    LET ws == Words(l)
        at == {i \in DOMAIN ws : ws[i] = "searchmoves"}
    IN  IF at = {} THEN << >>
        ELSE SubSeq(ws, (CHOOSE x \in at : \A y \in at : x <= y) + 1, Len(ws))

\* C21: after ParseTimeControl on a go line ending in searchmoves m1 ... mk,
\* Limits.searchmoves holds at index j - 1 the move parsed from mj for every
\* j in 1..k, the null move for a token that is no legal move, and is empty
\* from index k on; without searchmoves it is empty throughout.  (The array
\* is indexed from 1 here.)
C21_SearchMovesInOrder ==
    pc = "go_start" =>
       \A ms \in {MoveWords(line)} :
          /\ \A j \in 1..Len(ms) :
                /\ j \in DOMAIN Limits.searchmoves
                /\ Limits.searchmoves[j] = ParseMove(ms[j], pos)
          /\ \A j \in DOMAIN Limits.searchmoves :
                j > Len(ms) => Limits.searchmoves[j] = NOMOVE

(***************************************************************************)
(* Properties of the printed score and the seldepth.                       *)
(***************************************************************************)
\* C22: every line of a report on a slot with internal score s below
\* MATE_IN_MAX in magnitude has type cp, with the value 0 when |s| <= 8 and
\* the principal variation of the slot has at most 2 moves, and the value s
\* otherwise
C22_NearZeroShortPv ==
    [][(infos' = infos + 1) =>
         \A r \in {ReadLine(out'[j]) : j \in (Len(out) + 1)..Len(out')} :
            LET rm == RootMove(thread', r.slot - 1)
            IN  Abs(rm.score) < MATE_IN_MAX =>
                  /\ r.type = "cp"
                  /\ Abs(rm.score) <= 8 /\ Len(rm.pv) <= 2 => r.value = 0
                  /\ ~(Abs(rm.score) <= 8 /\ Len(rm.pv) <= 2) =>
                        r.value = rm.score]_vars

\* a score of 8 with a principal variation of 3 moves has been reported as it
\* is
C22_SmallScoreLongPv ==
    /\ infos > 0
    /\ RootMove(thread, 0).score = 8
    /\ Len(RootMove(thread, 0).pv) = 3
    /\ \E j \in DOMAIN out :
          Behind(out[j], "score", 1) = "cp" /\ Behind(out[j], "score", 2) = "8"

\* C23: the entry history(p - 1) being that of ply p, every line of a report
\* prints as seldepth the greatest ply p in 1..128 whose entry has a key
\* that is not 0, the first such met from ply 128 downward, and 0 when no
\* ply in 1..128 has one; so all lines of one report print the same
\* seldepth
C23_SelDepthFromHistory ==
    [][(infos' = infos + 1) =>
         \A r \in {ReadLine(out'[j]) : j \in (Len(out) + 1)..Len(out')} :
            LET ks    == thread'.keys
                plies == {p \in 1..128 : p \in DOMAIN ks /\ ks[p] # 0}
            IN  r.seldepth = (IF plies = {} THEN 0
                              ELSE CHOOSE p \in plies : \A q \in plies : q <= p)]_vars

\* a report of two lines has printed the seldepth 3 for a history with keys
\* at plies 1 and 3
C23_GapInHistory ==
    /\ infos > 0
    /\ thread.keys = <<7, 0, 9>>
    /\ \E i, j \in DOMAIN out :
          /\ i # j
          /\ Behind(out[i], "seldepth", 1) = "3"
          /\ Behind(out[j], "seldepth", 1) = "3"

====
